---- MODULE Spec2Model ----
(***************************************************************************)
(* Model of modules/catalog.py: the CatalogAPI client.  Construction       *)
(* fetches one JSON document over HTTP; three query methods read it        *)
(* (check_key_exists, check_url_valid, check_date_age).                    *)
(*                                                                         *)
(* Strings are sequences of one-character strings, but for the scheme of a *)
(* URL, which is the one element Scheme.  JSON values are                 *)
(* records [t, n, s]: t is the Python type after json(), n the number, the *)
(* boolean (0/1) or the container's length, s the characters of a string.  *)
(* The HTTP server and the network are the environment: every GET ends in  *)
(* one of Outcomes, chosen nondeterministically.                           *)
(***************************************************************************)
EXTENDS Integers, Sequences, FiniteSets, TLC

VARIABLES
    constructed,  \* TRUE once CatalogAPI.__init__ has returned an instance
    url,          \* self.url
    catalog_id,   \* self.catalog_id
    timeout,      \* self.timeout
    data,         \* self.data: the document, [t, doc] with doc a function on keys
    gets,         \* number of calls of requests.get made so far
    lastGet,      \* the call of requests.get the last method call made, if any
    today,        \* what get_today() returned to the last method call, if called
    call,         \* the last method called, with its arguments
    raised,       \* the class of the exception the last call raised, or NoExc
    message,      \* the arguments of that exception
    ret           \* the value the last call returned, or NoValue

vars == <<constructed, url, catalog_id, timeout, data, gets,
          lastGet, today, call, raised, message, ret>>

----------------------------------------------------------------------------
(* Bounds of the model *)

\* most slashes a base URL ends in
MaxTrailing == 2
\* most slashes a catalog identifier begins with
MaxLeading == 1
\* calls of requests.get in one behaviour
MaxGets == 2

----------------------------------------------------------------------------
(* Strings *)

Scheme == "http://"

\* k slashes
Slashes(k) == [i \in 1..k |-> "/"]

\* str.endswith
endswith(s, c) == Len(s) > 0 /\ s[Len(s)] = c

Str(text) == [t |-> "str", n |-> 0, s |-> text]
Num(k) == [t |-> "int", n |-> k, s |-> <<>>]
Bool(b) == [t |-> "bool", n |-> IF b THEN 1 ELSE 0, s |-> <<>>]
None == [t |-> "NoneType", n |-> 0, s |-> <<>>]
List(len) == [t |-> "list", n |-> len, s |-> <<>>]
Dict(len) == [t |-> "dict", n |-> len, s |-> <<>>]

\* no value: the call raised, or has not happened
NoValue == [t |-> "nothing", n |-> 0, s |-> <<>>]

\* Python's truth value of a JSON value
truthy(v) ==
    CASE v.t = "str" -> Len(v.s) > 0
      [] v.t = "int" -> v.n # 0
      [] v.t = "bool" -> v.n = 1
      [] v.t = "list" -> v.n > 0
      [] v.t = "dict" -> v.n > 0
      [] OTHER -> FALSE

Digits == <<"0", "1", "2", "3", "4", "5", "6", "7", "8", "9">>

\* str(v), as the f-string of check_url_valid renders a value (the model's
\* integers are single digits, its containers hold no rendered elements)
pystr(v) ==
    CASE v.t = "str" -> v.s
      [] v.t = "int" -> <<Digits[v.n + 1]>>
      [] v.t = "bool" -> IF v.n = 1 THEN <<"T", "r", "u", "e">>
                         ELSE <<"F", "a", "l", "s", "e">>
      [] v.t = "NoneType" -> <<"N", "o", "n", "e">>
      [] v.t = "list" -> <<"[", "]">>
      [] OTHER -> <<"{", "}">>

----------------------------------------------------------------------------
(* JSON: a response body is a sequence of tokens, json() parses it *)

LBrace == [tok |-> "{", key |-> "", val |-> None]
RBrace == [tok |-> "}", key |-> "", val |-> None]
Comma == [tok |-> ",", key |-> "", val |-> None]
Junk == [tok |-> "<html>", key |-> "", val |-> None]
Member(k, v) == [tok |-> "member", key |-> k, val |-> v]

\* Response.json(): the body parsed as a JSON object.  A later member with
\* the same key replaces an earlier one, as in Python's json module.
json(body) ==
    LET n == Len(body)
        inner == IF n >= 2 THEN SubSeq(body, 2, n - 1) ELSE <<>>
        m == Len(inner)
        braces == n >= 2 /\ body[1].tok = "{" /\ body[n].tok = "}"
        members ==
            \/ m = 0
            \/ /\ m % 2 = 1
               /\ \A i \in 1..m :
                     IF i % 2 = 1 THEN inner[i].tok = "member"
                     ELSE inner[i].tok = ","
        keys == {inner[i].key : i \in {j \in 1..m : j % 2 = 1}}
        last(k) == CHOOSE i \in 1..m :
                       /\ inner[i].key = k
                       /\ \A j \in 1..m : inner[j].key = k => j <= i
    IN
    IF braces /\ members
    THEN [ok |-> TRUE, doc |-> [k \in keys |-> inner[last(k)].val]]
    ELSE [ok |-> FALSE, doc |-> <<>>]

\* self.data: a dict after a fetch that parsed, None when _get_data falls off
\* its end, and NoData while no instance exists
DictData(doc) == [t |-> "dict", doc |-> doc]
NoneData == [t |-> "NoneType", doc |-> <<>>]
NoData == [t |-> "unset", doc |-> <<>>]

----------------------------------------------------------------------------
(* HTTP: how a call of requests.get can end *)

Statuses == {101, 200, 304, 404, 500}

Response(status, body) == [kind |-> "response", status |-> status, body |-> body]
Failure(kind) == [kind |-> kind, status |-> 0, body |-> <<>>]

\* requests.get raised before any response: the classes the handlers name,
\* and MissingSchema, a RequestException, for an argument that is no URL
NetworkErrors == {"ConnectionError", "Timeout", "TooManyRedirects"}
MissingSchema == "MissingSchema"

\* Response.raise_for_status(): TRUE when it raises HTTPError
raise_for_status(status) == status >= 400 /\ status < 600

\* Response.ok: raise_for_status() did not raise
ok(status) == ~raise_for_status(status)

\* what Response.json() raises on a body that is no JSON: requests from 2.27
\* on raises its own JSONDecodeError, a RequestException; earlier versions
\* raise the json module's error, a ValueError
JsonErrors == {"JSONDecodeError", "ValueError"}

\* the errors json() can raise on the outcome of a request: one of JsonErrors
\* for a body that is no JSON, none otherwise
JsonErrorsOf(outcome) ==
    IF outcome.kind = "response" /\ ~json(outcome.body).ok THEN JsonErrors
    ELSE {"none"}

NoExc == "none"
NoMessage == [url |-> <<>>, cause |-> ""]

Returns(v) == [raised |-> NoExc, message |-> NoMessage, value |-> v]
Raises(exc, msg) == [raised |-> exc, message |-> msg, value |-> NoValue]

----------------------------------------------------------------------------
(* Dates: datetime.datetime.strptime and the month arithmetic *)

Date(y, m, d) == [year |-> y, month |-> m, day |-> d]
NoDate == Date(0, 0, 0)

IsDigit(c) == \E i \in 1..10 : Digits[i] = c
DigitVal(c) == (CHOOSE i \in 1..10 : Digits[i] = c) - 1

IsLeap(y) == (y % 4 = 0 /\ y % 100 # 0) \/ y % 400 = 0

DaysInMonth(y, m) ==
    IF m = 2 THEN (IF IsLeap(y) THEN 29 ELSE 28)
    ELSE IF m \in {4, 6, 9, 11} THEN 30 ELSE 31

\* One directive of a format applied to s at position p.  The result is the
\* parse so far, [ok, pos, year, month, day]; the digit patterns are those
\* of _strptime: %Y \d\d\d\d, %m 1[0-2]|0[1-9]|[1-9],
\* %d 3[01]|[12]\d|0[1-9]|[1-9].
Directive(s, acc, dir) ==
    LET p == acc.pos
        has(k) == p + k - 1 <= Len(s) /\ \A i \in p..(p + k - 1) : IsDigit(s[i])
        v(i) == DigitVal(s[p + i])
        fail == [acc EXCEPT !.ok = FALSE]
    IN  IF ~acc.ok THEN acc
        ELSE IF dir = "%Y" THEN
            IF has(4)
            THEN [acc EXCEPT !.pos = p + 4,
                             !.year = 1000 * v(0) + 100 * v(1) + 10 * v(2) + v(3)]
            ELSE fail
        ELSE IF dir = "%m" THEN
            IF has(2) /\ v(0) = 1 /\ v(1) <= 2
            THEN [acc EXCEPT !.pos = p + 2, !.month = 10 + v(1)]
            ELSE IF has(2) /\ v(0) = 0 /\ v(1) >= 1
            THEN [acc EXCEPT !.pos = p + 2, !.month = v(1)]
            ELSE IF has(1) /\ v(0) >= 1
            THEN [acc EXCEPT !.pos = p + 1, !.month = v(0)]
            ELSE fail
        ELSE IF dir = "%d" THEN
            IF has(2) /\ v(0) = 3 /\ v(1) <= 1
            THEN [acc EXCEPT !.pos = p + 2, !.day = 30 + v(1)]
            ELSE IF has(2) /\ v(0) \in {1, 2}
            THEN [acc EXCEPT !.pos = p + 2, !.day = 10 * v(0) + v(1)]
            ELSE IF has(2) /\ v(0) = 0 /\ v(1) >= 1
            THEN [acc EXCEPT !.pos = p + 2, !.day = v(1)]
            ELSE IF has(1) /\ v(0) >= 1
            THEN [acc EXCEPT !.pos = p + 1, !.day = v(0)]
            ELSE fail
        ELSE IF p <= Len(s) /\ s[p] = dir
            THEN [acc EXCEPT !.pos = p + 1]
            ELSE fail

RECURSIVE Scan(_, _, _)
Scan(s, acc, fmt) ==
    IF fmt = <<>> THEN acc
    ELSE Scan(s, Directive(s, acc, Head(fmt)), Tail(fmt))

\* datetime.datetime.strptime(s, fmt): [ok, date]; ok is FALSE where it
\* raises ValueError (no match, unconverted data, no such day)
strptime(s, fmt) ==
    LET r == Scan(s, [ok |-> TRUE, pos |-> 1, year |-> 1900, month |-> 1,
                      day |-> 1], fmt)
        valid == /\ r.ok
                 /\ r.pos = Len(s) + 1
                 /\ r.year >= 1
                 /\ r.day <= DaysInMonth(r.year, r.month)
    IN  IF valid THEN [ok |-> TRUE, date |-> Date(r.year, r.month, r.day)]
        ELSE [ok |-> FALSE, date |-> NoDate]

\* a variant that counts whole elapsed months, looking at the day of month
age_month_elapsed(d, now) ==
    (now.year - d.year) * 12 + now.month - d.month
        - (IF now.day < d.day THEN 1 ELSE 0)

\* age_month(d), with today the value of get_today()
age_month(d, now) == (now.year - d.year) * 12 + now.month - d.month

----------------------------------------------------------------------------
(* The inputs: callers' arguments, the catalog's bodies, the clock *)

BaseUrls == {<<Scheme, "a">> \o Slashes(k) : k \in 0..MaxTrailing}
CatalogIds == {Slashes(k) \o <<"b">> : k \in 0..MaxLeading}
Timeouts == {5, 30}

Site == <<Scheme, "a", "/", "a">>
D20230131 == <<"2", "0", "2", "3", "-", "0", "1", "-", "3", "1">>
D20231201 == <<"2", "0", "2", "3", "-", "1", "2", "-", "0", "1">>
D20240229 == <<"2", "0", "2", "4", "-", "0", "2", "-", "2", "9">>
D20230229 == <<"2", "0", "2", "3", "-", "0", "2", "-", "2", "9">>
D20231301 == <<"2", "0", "2", "3", "-", "1", "3", "-", "0", "1">>
D202315 == <<"2", "0", "2", "3", "-", "1", "-", "5">>
D31012023 == <<"3", "1", "/", "0", "1", "/", "2", "0", "2", "3">>

Keys == {"website", "released", "updated", "name", "tags", "count", "absent"}

BodyFull ==
    <<LBrace, Member("website", Str(Site)), Comma,
      Member("released", Str(D20230131)), Comma,
      Member("updated", Str(D20231201)), Comma,
      Member("name", Str(<<"a">>)), Comma,
      Member("tags", List(1)), Comma, Member("count", Num(5)), RBrace>>

BodyFalsy ==
    <<LBrace, Member("website", Str(<<>>)), Comma, Member("released", None),
      Comma, Member("updated", Bool(FALSE)), Comma, Member("name", Str(<<>>)),
      Comma, Member("tags", List(0)), Comma, Member("count", Num(0)), RBrace>>

BodyMixed ==
    <<LBrace, Member("website", Num(7)), Comma,
      Member("released", Str(D20240229)), Comma,
      Member("updated", Str(D20230229)), Comma,
      Member("name", Bool(TRUE)), Comma,
      Member("tags", Dict(0)), Comma, Member("count", Dict(2)), RBrace>>

BodyRepeated ==
    <<LBrace, Member("released", Str(D31012023)), Comma,
      Member("updated", Str(D202315)), Comma,
      Member("name", Str(D20231301)), Comma,
      Member("count", Num(0)), Comma, Member("count", Num(3)), RBrace>>

BodyEmpty == <<LBrace, RBrace>>

JsonBodies == {BodyFull, BodyFalsy, BodyMixed, BodyRepeated, BodyEmpty}

BadBodies ==
    { <<>>, <<Junk>>, <<LBrace, Member("name", Str(<<"a">>))>>,
      <<LBrace, Member("name", Str(<<"a">>)), Member("count", Num(5)), RBrace>> }

Bodies == JsonBodies \cup BadBodies

Formats == { <<"%Y", "-", "%m", "-", "%d">>, <<"%d", "/", "%m", "/", "%Y">> }

\* get_today(): the clock is the environment's
Todays == { Date(2023, 2, 1), Date(2024, 3, 31), Date(2022, 11, 30) }

\* how requests.get(arg) can end: an argument whose str() has no scheme
\* never leaves the library
Outcomes(arg, bodies) ==
    IF arg.t = "str" /\ arg.s # <<>> /\ Head(arg.s) = Scheme
    THEN {Failure(k) : k \in NetworkErrors}
         \cup {Response(st, b) : st \in Statuses, b \in bodies}
    ELSE {Failure(MissingSchema)}

NoGet == [url |-> None, timeout |-> 0, outcome |-> Failure("none")]
Get(arg, tmo, outcome) == [url |-> arg, timeout |-> tmo, outcome |-> outcome]

----------------------------------------------------------------------------
(* CatalogAPI *)

\* a variant that adds the separator without looking at the base URL
catalog_url_unconditional(u, id) == u \o <<"/">> \o id

\* the URL _get_data requests
catalog_url(u, id) ==
    IF endswith(u, "/") THEN u \o id ELSE u \o <<"/">> \o id

\* a variant that swallows the parse error and leaves the document None
_get_data_lenient(outcome, jsonError) ==
    IF outcome.kind # "response"
    THEN Raises("CriticalException", [url |-> <<>>, cause |-> outcome.kind])
    ELSE IF raise_for_status(outcome.status)
    THEN Raises("CriticalException", [url |-> <<>>, cause |-> "HTTPError"])
    ELSE LET parsed == json(outcome.body)
         IN  IF parsed.ok THEN Returns(DictData(parsed.doc))
             ELSE Returns(NoneData)

\* _get_data, after requests.get ended in outcome
_get_data(outcome, jsonError) ==
    IF outcome.kind # "response"
    THEN Raises("CriticalException", [url |-> <<>>, cause |-> outcome.kind])
    ELSE IF raise_for_status(outcome.status)
    THEN Raises("CriticalException", [url |-> <<>>, cause |-> "HTTPError"])
    ELSE IF ok(outcome.status)
    THEN LET parsed == json(outcome.body)
         IN  IF parsed.ok THEN Returns(DictData(parsed.doc))
             ELSE IF jsonError = "JSONDecodeError"
             THEN Raises("CriticalException",
                         [url |-> <<>>, cause |-> "JSONDecodeError"])
             ELSE Raises("ValueError", NoMessage)
    ELSE Returns(NoneData)

\* check_key_exists: key in self.data and self.data[key]
check_key_exists(d, key) ==
    IF d.t # "dict" THEN Raises("TypeError", NoMessage)
    ELSE IF key \in DOMAIN d.doc THEN Returns(d.doc[key])
    ELSE Returns(Bool(FALSE))

\* a variant that looks the key up with a default: self.data.get(key)
url_lookup_default(d, key) ==
    IF d.t # "dict" THEN Raises("TypeError", NoMessage)
    ELSE IF key \notin DOMAIN d.doc THEN Returns(None)
    ELSE Returns(d.doc[key])

\* check_url_valid up to the call of requests.get: self.data[key]
url_lookup(d, key) ==
    IF d.t # "dict" THEN Raises("TypeError", NoMessage)
    ELSE IF key \notin DOMAIN d.doc THEN Raises("KeyError", NoMessage)
    ELSE Returns(d.doc[key])

\* check_url_valid after requests.get(arg) ended in outcome
check_url_valid(arg, outcome) ==
    IF outcome.kind # "response"
    THEN Raises("CriticalException", [url |-> pystr(arg), cause |-> outcome.kind])
    ELSE IF raise_for_status(outcome.status)
    THEN Raises("CriticalException", [url |-> pystr(arg), cause |-> "HTTPError"])
    ELSE IF ok(outcome.status) THEN Returns(Bool(TRUE))
    ELSE Returns(None)

\* check_date_age
check_date_age(d, key, fmt, now) ==
    IF d.t # "dict" THEN Raises("TypeError", NoMessage)
    ELSE IF key \notin DOMAIN d.doc THEN Raises("KeyError", NoMessage)
    ELSE IF d.doc[key].t # "str" THEN Raises("TypeError", NoMessage)
    ELSE LET parsed == strptime(d.doc[key].s, fmt)
         IN  IF parsed.ok THEN Returns(Num(age_month(parsed.date, now)))
             ELSE Raises("ValueError", NoMessage)

----------------------------------------------------------------------------
(* The state machine *)

\* a call: the method and its arguments
Call(op, base, id, key, fmt) ==
    [op |-> op, base |-> base, id |-> id, key |-> key, fmt |-> fmt]
NoCall == Call("none", <<>>, <<>>, "", <<>>)

Init ==
    /\ constructed = FALSE
    /\ url = <<>>
    /\ catalog_id = <<>>
    /\ timeout = 0
    /\ data = NoData
    /\ gets = 0
    /\ lastGet = NoGet
    /\ today = NoDate
    /\ call = NoCall
    /\ raised = NoExc
    /\ message = NoMessage
    /\ ret = NoValue

Outcome(r) ==
    /\ raised' = r.raised
    /\ message' = r.message

\* a variant of the constructor that repeats a request that failed, once
ConstructRetry(u, id, tmo, outcome, jsonError) ==
    /\ ~constructed
    /\ gets < MaxGets
    /\ LET r == _get_data(outcome, jsonError)
       IN  /\ Outcome(r)
           /\ constructed' = (r.raised = NoExc)
           /\ IF r.raised = NoExc
              THEN /\ url' = u
                   /\ catalog_id' = id
                   /\ timeout' = tmo
                   /\ data' = r.value
              ELSE UNCHANGED <<url, catalog_id, timeout, data>>
           /\ gets' = gets + (IF r.raised = NoExc THEN 1 ELSE 2)
    /\ lastGet' = Get(Str(catalog_url(u, id)), tmo, outcome)
    /\ call' = Call("__init__", u, id, "", <<>>)
    /\ ret' = NoValue
    /\ today' = NoDate

\* CatalogAPI(u, id, tmo): __init__ with the fetch of _get_data.  An exception
\* leaves the caller without an instance.
Construct(u, id, tmo, outcome, jsonError) ==
    /\ ~constructed
    /\ gets < MaxGets
    /\ LET r == _get_data(outcome, jsonError)
       IN  /\ Outcome(r)
           /\ constructed' = (r.raised = NoExc)
           /\ IF r.raised = NoExc
              THEN /\ url' = u
                   /\ catalog_id' = id
                   /\ timeout' = tmo
                   /\ data' = r.value
              ELSE UNCHANGED <<url, catalog_id, timeout, data>>
    /\ lastGet' = Get(Str(catalog_url(u, id)), tmo, outcome)
    /\ gets' = gets + 1
    /\ call' = Call("__init__", u, id, "", <<>>)
    /\ ret' = NoValue
    /\ today' = NoDate

\* a variant that takes the key out of the document: self.data.pop(key, False)
CheckKeyExistsPop(key) ==
    /\ constructed
    /\ LET r == check_key_exists(data, key)
       IN  Outcome(r) /\ ret' = r.value
    /\ data' = [data EXCEPT !.doc = [k \in DOMAIN data.doc \ {key} |-> data.doc[k]]]
    /\ call' = Call("check_key_exists", <<>>, <<>>, key, <<>>)
    /\ lastGet' = NoGet
    /\ today' = NoDate
    /\ UNCHANGED <<constructed, url, catalog_id, timeout, gets>>

\* check_key_exists(key)
CheckKeyExists(key) ==
    /\ constructed
    /\ LET r == check_key_exists(data, key)
       IN  Outcome(r) /\ ret' = r.value
    /\ call' = Call("check_key_exists", <<>>, <<>>, key, <<>>)
    /\ lastGet' = NoGet
    /\ today' = NoDate
    /\ UNCHANGED <<constructed, url, catalog_id, timeout, data, gets>>

\* check_url_valid(key) whose lookup of the key raises: no request is made
CheckUrlLookupFails(key) ==
    /\ constructed
    /\ LET r == url_lookup(data, key)
       IN  /\ r.raised # NoExc
           /\ Outcome(r)
           /\ ret' = NoValue
    /\ call' = Call("check_url_valid", <<>>, <<>>, key, <<>>)
    /\ lastGet' = NoGet
    /\ today' = NoDate
    /\ UNCHANGED <<constructed, url, catalog_id, timeout, data, gets>>

\* check_url_valid(key) that reaches requests.get
CheckUrlValid(key) ==
    /\ constructed
    /\ gets < MaxGets
    /\ LET l == url_lookup(data, key)
       IN  /\ l.raised = NoExc
           /\ \E outcome \in Outcomes(l.value, {<<>>}) :
                 LET r == check_url_valid(l.value, outcome)
                 IN  /\ Outcome(r)
                     /\ ret' = r.value
                     /\ lastGet' = Get(l.value, 0, outcome)
    /\ gets' = gets + 1
    /\ call' = Call("check_url_valid", <<>>, <<>>, key, <<>>)
    /\ today' = NoDate
    /\ UNCHANGED <<constructed, url, catalog_id, timeout, data>>

CheckDateAge(key, fmt, now) ==
    /\ constructed
    /\ LET r == check_date_age(data, key, fmt, now)
       IN  Outcome(r) /\ ret' = r.value
    /\ call' = Call("check_date_age", <<>>, <<>>, key, fmt)
    /\ today' = now
    /\ lastGet' = NoGet
    /\ UNCHANGED <<constructed, url, catalog_id, timeout, data, gets>>

Next ==
    \/ \E u \in BaseUrls, id \in CatalogIds, tmo \in Timeouts :
          \E outcome \in Outcomes(Str(catalog_url(u, id)), Bodies) :
             \E je \in JsonErrorsOf(outcome) : Construct(u, id, tmo, outcome, je)
    \/ \E key \in Keys : CheckKeyExists(key)
    \/ \E key \in Keys : CheckUrlLookupFails(key)
    \/ \E key \in Keys : CheckUrlValid(key)
    \/ \E key \in Keys, fmt \in Formats, now \in Todays : CheckDateAge(key, fmt, now)

Spec == Init /\ [][Next]_vars

----------------------------------------------------------------------------
(* The claims *)

Is2xx(status) == status >= 200 /\ status <= 299

\* the last call was method op
Called(op) == call.op = op

\* the request of the last call got no 2xx response: an exception of
\* requests.get, or a response with another status
GetFailed ==
    /\ lastGet # NoGet
    /\ \/ lastGet.outcome.kind # "response"
       \/ ~Is2xx(lastGet.outcome.status)

\* C1: whenever the catalog GET ends in a non-2xx status (1xx and 3xx
\* included), a connection failure, a timeout or too many redirects, the
\* constructor raises CriticalException and no instance is produced.
C1_FetchFailureRaises ==
    (Called("__init__") /\ GetFailed) =>
        (raised = "CriticalException" /\ ~constructed /\ data = NoData)

rstrip(s) ==
    LET ends == {i \in 0..Len(s) : \A j \in (i + 1)..Len(s) : s[j] = "/"}
        cut == CHOOSE i \in ends : \A j \in ends : i <= j
    IN  SubSeq(s, 1, cut)

lstrip(s) ==
    LET starts == {i \in 1..(Len(s) + 1) : \A j \in 1..(i - 1) : s[j] = "/"}
        cut == CHOOSE i \in starts : \A j \in starts : i >= j
    IN  SubSeq(s, cut, Len(s))

\* the slashes of the requested URL between the end of the base URL's text
\* and the start of the identifier's
JoinSlashes(request, base, id) ==
    Len(request) - Len(rstrip(base)) - Len(lstrip(id))

\* C2 as stated: for every base URL (ending in no, one or several slashes)
\* and every identifier, the requested URL has exactly one slash at the join.
C2_ExactlyOneSlashAlways ==
    Called("__init__") =>
        /\ lastGet.url.s = rstrip(call.base) \o <<"/">> \o lstrip(call.id)
        /\ JoinSlashes(lastGet.url.s, call.base, call.id) = 1

\* C2 as amended: for a base URL that ends in no slash or in exactly one, and
\* an identifier that does not begin with a slash, the requested URL is the
\* base URL's text, one slash, and the identifier.
C2_ExactlyOneSlash ==
    ( /\ Called("__init__")
      /\ Len(call.base) - Len(rstrip(call.base)) <= 1
      /\ lstrip(call.id) = call.id ) =>
        /\ lastGet.url.s = rstrip(call.base) \o <<"/">> \o call.id
        /\ JoinSlashes(lastGet.url.s, call.base, call.id) = 1

C2_Witness ==
    /\ Called("__init__")
    /\ call.base = <<Scheme, "a", "/">>
    /\ call.id = <<"b">>
    /\ lastGet.url = Str(<<Scheme, "a", "/", "b">>)

\* C3: check_key_exists returns the boolean True iff the key is present with
\* a truthy value and the boolean False otherwise, never the stored value.
C3_ReturnsBoolean ==
    Called("check_key_exists") =>
        /\ raised = NoExc
        /\ ret = Bool(/\ call.key \in DOMAIN data.doc
                      /\ truthy(data.doc[call.key]))

\* C4: check_url_valid returns True only if the response has a 2xx status.
C4_TrueOnlyOn2xx ==
    (Called("check_url_valid") /\ ret = Bool(TRUE)) =>
        (lastGet.outcome.kind = "response" /\ Is2xx(lastGet.outcome.status))

\* C5: when the GET of check_url_valid ends in a network error, a timeout or
\* a non-2xx status, the call raises CriticalException with the URL stored at
\* the key and the cause in its message; it returns nothing, not even False.
C5_UrlFailureRaises ==
    (Called("check_url_valid") /\ GetFailed) =>
        /\ raised = "CriticalException"
        /\ message.url = pystr(data.doc[call.key])
        /\ message.cause # ""
        /\ ret = NoValue

\* C6: check_date_age on a parsable date d returns
\* (now.year - d.year) * 12 + now.month - d.month: the days of month of d and
\* of now do not matter (2023-01-31 seen on 2023-02-01 is 1 month old), and
\* the result is negative when d is in a later calendar month than now.
C6_CalendarMonths ==
    (Called("check_date_age") /\ call.key \in DOMAIN data.doc
                              /\ data.doc[call.key].t = "str") =>
        LET text == data.doc[call.key].s
            parsed == strptime(text, call.fmt)
            d == parsed.date
        IN  /\ parsed.ok <=> raised = NoExc
            /\ raised = NoExc =>
                /\ ret = Num((today.year - d.year) * 12 + today.month - d.month)
                /\ \A dd \in 1..DaysInMonth(d.year, d.month),
                      nd \in 1..DaysInMonth(today.year, today.month) :
                      age_month(Date(d.year, d.month, dd),
                                Date(today.year, today.month, nd)) = ret.n
                /\ (d.year * 12 + d.month > today.year * 12 + today.month) =>
                      ret.n < 0
                /\ (text = D20230131 /\ today = Date(2023, 2, 1)) => ret.n = 1
                /\ (text = D20231201 /\ today = Date(2023, 2, 1)) => ret.n = -10

C6_Witness ==
    /\ Called("check_date_age")
    /\ call.key \in DOMAIN data.doc
    /\ data.doc[call.key] = Str(D20230131)
    /\ today = Date(2023, 2, 1)
    /\ ret = Num(1)

\* C7: the document of an instance is the parsed body of the constructor's
\* one fetch, no later call changes it, whether it returns or raises, and
\* check_key_exists and check_date_age make no HTTP request.
C7_DocumentFrozen ==
    [][ /\ constructed => (constructed' /\ data' = data)
        /\ (~constructed /\ constructed') =>
              /\ lastGet'.outcome.body \in JsonBodies
              /\ data'.t = "dict"
              /\ \A k \in Keys :
                    k \in DOMAIN data'.doc <=>
                        \E i \in 1..Len(lastGet'.outcome.body) :
                            /\ lastGet'.outcome.body[i].tok = "member"
                            /\ lastGet'.outcome.body[i].key = k
              /\ \A i \in 1..Len(lastGet'.outcome.body) :
                    LET b == lastGet'.outcome.body
                    IN  ( /\ b[i].tok = "member"
                          /\ \A j \in (i + 1)..Len(b) : b[j].key # b[i].key ) =>
                             data'.doc[b[i].key] = b[i].val
        /\ call'.op \in {"check_key_exists", "check_date_age"} =>
              (gets' = gets /\ lastGet' = NoGet)
      ]_vars

C7_Witness ==
    /\ constructed
    /\ Called("check_url_valid")
    /\ raised = "CriticalException"
    /\ gets = 2
    /\ data = DictData(json(BodyFull).doc)

\* C8: a success status with a body that is no JSON makes the constructor
\* raise, and no instance with an unset or partial document exists.
C8_BadBodyRaises ==
    ( /\ Called("__init__")
      /\ lastGet.outcome.kind = "response"
      /\ Is2xx(lastGet.outcome.status)
      /\ lastGet.outcome.body \in BadBodies ) =>
        /\ raised \in {"CriticalException", "ValueError"}
        /\ ~constructed
        /\ data = NoData

C8_Witness ==
    /\ Called("__init__")
    /\ lastGet.outcome = Response(200, <<Junk>>)
    /\ raised # NoExc
    /\ ~constructed

\* C9: check_url_valid and check_date_age with a key the document lacks
\* raise the lookup error (KeyError), not CriticalException, and
\* check_url_valid makes no request.
C9_AbsentKeyIsLookupError ==
    [][ ( /\ call'.op \in {"check_url_valid", "check_date_age"}
          /\ call'.key \notin DOMAIN data.doc ) =>
            /\ raised' = "KeyError"
            /\ ret' = NoValue
            /\ gets' = gets
            /\ lastGet' = NoGet
      ]_vars

C9_Witness ==
    /\ Called("check_url_valid")
    /\ call.key = "absent"
    /\ raised = "KeyError"
    /\ lastGet = NoGet

====
